---- MODULE Spec2Model ----
(***************************************************************************)
(* Model of package queues (src/queues/queues.go): six FIFO queue          *)
(* backends behind one interface (Len, Enqueue, Dequeue) and the resize    *)
(* policy shouldShrink shared by the slice, ring and channel backends.     *)
(*                                                                         *)
(* Every method is a pure operator from the receiver's state (and the      *)
(* thresholds minShrink/baseLen, which are package variables in the Go     *)
(* code) to a result record                                                *)
(*     [q, v, panic, resize, wrap, blocked]                                *)
(* q       the receiver after the call                                     *)
(* v       the value returned (Zero when nothing is returned)              *)
(* panic   the call panicked (the state is what the code had written up    *)
(*         to the panic; a caller may recover and go on)                    *)
(* resize  "none" | "grow" | "shrink": the storage was replaced             *)
(* wrap    ringQueue.swapBuf took its wraparound branch                     *)
(* blocked a blocking channel send found no room (the goroutine hangs)      *)
(***************************************************************************)
EXTENDS Integers, Sequences, FiniteSets, TLC

\* ------------------------------------------------------------- bounds
\* Enqueue calls per run.
MaxEnq == 17
\* Dequeue calls that violate the precondition Len() > 0, per run.
MaxFail == 2
\* Width of the map backend's counters (uint64 in the code, scaled down).
CounterBits == 2
\* Range of the arguments of shouldShrink when it is checked on its own.
MaxArg == 40
\* Nodes the pool of the pooled backend makes per run.
MaxNodes == 3
\* Enqueue calls per run of the pooled backend (its pool hands out any of
\* its nodes, so its runs branch where the others do not).
MaxPooledEnq == 7

\* ---------------------------------------------------------- constants
growthFactor == 2

\* The zero value of the element type T. Enqueued values are 1, 2, 3, ...
Zero == 0

\* The go zero pointer.
nil == 0

\* Settings of the package variables <<minShrink, baseLen>>: the default,
\* the one TestQueues installs, and three more small ones.
SettingList ==
  << [minShrink |-> 64, baseLen |-> 8],
     [minShrink |-> 2,  baseLen |-> 2],
     [minShrink |-> 1,  baseLen |-> 1],
     [minShrink |-> 1,  baseLen |-> 3],
     [minShrink |-> 3,  baseLen |-> 1] >>

Settings == {SettingList[i] : i \in 1..Len(SettingList)}

Impls == {"slice", "ring", "chan", "list", "pooled", "map"}

ResizeImpls == {"slice", "ring", "chan"}

\* The values of the package variables in queues.go.
Default == [minShrink |-> 64, baseLen |-> 8]

\* The settings a backend is run under: the other three backends never read
\* the package variables.
SettingsOf(i) == IF i \in ResizeImpls THEN Settings ELSE {Default}

\* ------------------------------------------------------------ helpers
Min(a, b) == IF a < b THEN a ELSE b

max(a, b) == IF a > b THEN a ELSE b

\* make([]T, n): n zero values.
make(n) == [i \in 1..n |-> Zero]

\* s[lo:hi] of a Go slice with 0-based bounds, as a sequence.
Slice(s, lo, hi) == SubSeq(s, lo + 1, hi)

\* copy(dst, src): the number of elements copied.
copyN(dst, src) == Min(Len(dst), Len(src))

\* copy(dst, src): dst afterwards.
copy(dst, src) ==
  [i \in 1..Len(dst) |-> IF i <= Len(src) THEN src[i] ELSE dst[i]]

\* The result of a call.
Result(q, v, panic, resize, wrap, blocked) ==
  [q |-> q, v |-> v, panic |-> panic, resize |-> resize, wrap |-> wrap,
   blocked |-> blocked]

Returns(q, v, resize, wrap) == Result(q, v, FALSE, resize, wrap, FALSE)

Panics(q) == Result(q, Zero, TRUE, "none", FALSE, FALSE)

\* ------------------------------------------------------ resize policy
\* shouldShrink that lets the length reach a quarter of the capacity.
shouldShrink_atQuarter(l, c, th) ==
  [newCap |-> l * growthFactor,
   ok |-> l <= (c \div 4) /\ l > th.minShrink /\ l > th.baseLen]

\* shouldShrink that shrinks as soon as the storage is half empty.
shouldShrink_atHalf(l, c, th) ==
  [newCap |-> l * growthFactor,
   ok |-> l <= (c \div 2) /\ l > th.minShrink /\ l > th.baseLen]

shouldShrink(l, c, th) ==
  [newCap |-> l * growthFactor,
   ok |-> l < (c \div 4) /\ l > th.minShrink /\ l > th.baseLen]

\* ------------------------------------------------------------- slice
\* A slice is its elements, its capacity and whether it is the nil slice.
sliceQueue_new == [isNil |-> TRUE, s |-> << >>, cap |-> 0]

sliceQueue_Len(sq) == Len(sq.s)

sliceQueue_checkShrink(sq, th) ==
  LET r == shouldShrink(Len(sq.s), sq.cap, th)
  IN  IF r.ok
        THEN [q |-> [isNil |-> FALSE,
                     s |-> copy(make(Len(sq.s)), sq.s),
                     cap |-> r.newCap],
              resize |-> "shrink"]
        ELSE [q |-> sq, resize |-> "none"]

\* (*sq)[0] panics (index out of range) on a slice of length 0.
sliceQueue_Dequeue(sq, th) ==
  IF Len(sq.s) = 0
    THEN Panics(sq)
    ELSE LET v == sq.s[1]
             cut == [sq EXCEPT !.s = Tail(sq.s), !.cap = sq.cap - 1]
             r == sliceQueue_checkShrink(cut, th)
         IN  Returns(r.q, v, r.resize, FALSE)

\* The capacity append gives a full slice of capacity oldCap that must
\* hold newLen elements (the runtime doubles small slices).
growslice(oldCap, newLen) == max(growthFactor * oldCap, newLen)

sliceQueue_Enqueue(sq, v, th) ==
  LET a == IF sq.isNil
             THEN [isNil |-> FALSE, s |-> << >>, cap |-> th.baseLen]
             ELSE sq
      grows == Len(a.s) + 1 > a.cap
      b == [a EXCEPT !.s = Append(a.s, v),
                     !.cap = IF grows THEN growslice(a.cap, Len(a.s) + 1)
                                      ELSE a.cap]
  IN  Returns(b, Zero, IF grows THEN "grow" ELSE "none", FALSE)

\* -------------------------------------------------------------- ring
ringQueue_new == [first |-> 0, l |-> 0, buf |-> << >>]

ringQueue_Len(sq) == sq.l

\* swapBuf that copies the head segment of a wrapped window before its
\* tail segment.
ringQueue_swapBuf_headFirst(sq, n) ==
  IF sq.first + sq.l > Len(sq.buf)
    THEN LET headSeg == Slice(sq.buf, 0, sq.first + sq.l - Len(sq.buf))
             skip == copyN(n, headSeg)
             n1 == copy(n, headSeg)
             n2 == Slice(n1, 0, skip)
                     \o copy(Slice(n1, skip, Len(n1)),
                             Slice(sq.buf, sq.first, Len(sq.buf)))
         IN  [q |-> [sq EXCEPT !.first = 0, !.buf = n2], wrap |-> TRUE]
    ELSE [q |-> [sq EXCEPT !.first = 0,
                           !.buf = copy(n, Slice(sq.buf, sq.first,
                                                 sq.first + sq.l))],
          wrap |-> FALSE]

\* swapBuf(n): the live window of sq.buf copied to the front of n.
ringQueue_swapBuf(sq, n) ==
  IF sq.first + sq.l > Len(sq.buf)
    THEN LET tailSeg == Slice(sq.buf, sq.first, Len(sq.buf))
             skip == copyN(n, tailSeg)
             n1 == copy(n, tailSeg)
             n2 == Slice(n1, 0, skip)
                     \o copy(Slice(n1, skip, Len(n1)),
                             Slice(sq.buf, 0, sq.l - skip))
         IN  [q |-> [sq EXCEPT !.first = 0, !.buf = n2], wrap |-> TRUE]
    ELSE [q |-> [sq EXCEPT !.first = 0,
                           !.buf = copy(n, Slice(sq.buf, sq.first,
                                                 sq.first + sq.l))],
          wrap |-> FALSE]

\* checkShrink that takes three times the length as the new capacity.
ringQueue_checkShrink_triple(sq, th) ==
  LET r == shouldShrink(sq.l, Len(sq.buf), th)
  IN  IF ~r.ok
        THEN [q |-> sq, wrap |-> FALSE, resize |-> "none"]
        ELSE LET w == ringQueue_swapBuf(sq, make(r.newCap + sq.l))
             IN  [q |-> w.q, wrap |-> w.wrap, resize |-> "shrink"]

ringQueue_checkShrink(sq, th) ==
  LET r == shouldShrink(sq.l, Len(sq.buf), th)
  IN  IF ~r.ok
        THEN [q |-> sq, wrap |-> FALSE, resize |-> "none"]
        ELSE LET w == ringQueue_swapBuf(sq, make(r.newCap))
             IN  [q |-> w.q, wrap |-> w.wrap, resize |-> "shrink"]

\* Dequeue that advances first without wrapping it at the buffer's end.
ringQueue_Dequeue_noWrap(sq, th) ==
  IF sq.l = 0
    THEN Panics(sq)
    ELSE LET v == sq.buf[sq.first + 1]
             cut == [sq EXCEPT !.first = sq.first + 1, !.l = sq.l - 1]
             r == ringQueue_checkShrink(cut, th)
         IN  Returns(r.q, v, r.resize, r.wrap)

ringQueue_Dequeue(sq, th) ==
  IF sq.l = 0
    THEN Panics(sq)
    ELSE LET v == sq.buf[sq.first + 1]
             cut == [sq EXCEPT !.first = (sq.first + 1) % Len(sq.buf),
                               !.l = sq.l - 1]
             r == ringQueue_checkShrink(cut, th)
         IN  Returns(r.q, v, r.resize, r.wrap)

\* grow that doubles the capacity and ignores baseLen.
ringQueue_grow_noBase(sq, th) ==
  ringQueue_swapBuf(sq, make(growthFactor * Len(sq.buf)))

ringQueue_grow(sq, th) ==
  ringQueue_swapBuf(sq, make(max(growthFactor * Len(sq.buf), th.baseLen)))

\* Enqueue that forgets the offset first when it picks the slot to write.
ringQueue_Enqueue_noFirst(sq, v, th) ==
  LET grows == sq.l + 1 > Len(sq.buf)
      g == IF grows THEN ringQueue_grow(sq, th)
                    ELSE [q |-> sq, wrap |-> FALSE]
      a == g.q
  IN  IF Len(a.buf) = 0
        THEN Panics(a)
        ELSE Returns([a EXCEPT !.buf[(a.l % Len(a.buf)) + 1] = v,
                               !.l = a.l + 1],
                     Zero, IF grows THEN "grow" ELSE "none", g.wrap)

\* The index expression divides by len(buf): a panic when it is 0.
ringQueue_Enqueue(sq, v, th) ==
  LET grows == sq.l + 1 > Len(sq.buf)
      g == IF grows THEN ringQueue_grow(sq, th)
                    ELSE [q |-> sq, wrap |-> FALSE]
      a == g.q
  IN  IF Len(a.buf) = 0
        THEN Panics(a)
        ELSE Returns([a EXCEPT !.buf[((a.first + a.l) % Len(a.buf)) + 1] = v,
                               !.l = a.l + 1],
                     Zero, IF grows THEN "grow" ELSE "none", g.wrap)

\* -------------------------------------------------------------- chan
\* A channel is its buffered values, its capacity and whether it is closed.
makeChan(c) == [buf |-> << >>, cap |-> c, closed |-> FALSE]

newChanQueue(th) == makeChan(th.baseLen)

chanQueue_Len(cq) == Len(cq.buf)

\* close(src), then every value still buffered in src is sent to dst with a
\* blocking send; the loop ends when src is drained. A send that finds dst
\* full never returns: blocked, with src and dst as they are at that point.
RECURSIVE drain(_, _)
drain(dst, src) ==
  IF Len(src.buf) = 0
    THEN [dst |-> dst, src |-> src, blocked |-> FALSE]
    ELSE IF Len(dst.buf) >= dst.cap
           THEN [dst |-> dst, src |-> src, blocked |-> TRUE]
           ELSE drain([dst EXCEPT !.buf = Append(dst.buf, Head(src.buf))],
                      [src EXCEPT !.buf = Tail(src.buf)])

\* copyChan that does not close src: the range loop waits for more values
\* once src is drained.
copyChan_noClose(dst, src) == [drain(dst, src) EXCEPT !.blocked = TRUE]

copyChan(dst, src) == drain(dst, [src EXCEPT !.closed = TRUE])

\* checkShrink that drains the channel into the new one and keeps the old.
chanQueue_checkShrink_keepOld(cq, th) ==
  LET r == shouldShrink(Len(cq.buf), cq.cap, th)
  IN  IF ~r.ok
        THEN [q |-> cq, resize |-> "none", blocked |-> FALSE]
        ELSE LET c == copyChan(makeChan(r.newCap), cq)
             IN  [q |-> c.src, resize |-> "shrink", blocked |-> c.blocked]

chanQueue_checkShrink(cq, th) ==
  LET r == shouldShrink(Len(cq.buf), cq.cap, th)
  IN  IF ~r.ok
        THEN [q |-> cq, resize |-> "none", blocked |-> FALSE]
        ELSE LET c == copyChan(makeChan(r.newCap), cq)
             IN  IF c.blocked
                   THEN [q |-> c.src, resize |-> "none", blocked |-> TRUE]
                   ELSE [q |-> c.dst, resize |-> "shrink", blocked |-> FALSE]

\* The receive of the select is ready when a value is buffered, and also
\* when the channel is closed (it then yields the zero value).
chanQueue_Dequeue(cq, th) ==
  IF Len(cq.buf) > 0
    THEN LET v == Head(cq.buf)
             r == chanQueue_checkShrink([cq EXCEPT !.buf = Tail(cq.buf)], th)
         IN  Result(r.q, v, FALSE, r.resize, FALSE, r.blocked)
    ELSE IF cq.closed
           THEN Returns(cq, Zero, "none", FALSE)
           ELSE Panics(cq)

\* Enqueue that sends the new value into the new channel before it drains
\* the old one into it.
chanQueue_Enqueue_sendFirst(cq, v, th) ==
  IF cq.closed
    THEN Panics(cq)
    ELSE IF Len(cq.buf) < cq.cap
           THEN Returns([cq EXCEPT !.buf = Append(cq.buf, v)], Zero, "none",
                        FALSE)
           ELSE LET n0 == makeChan(cq.cap * growthFactor)
                    c == copyChan([n0 EXCEPT !.buf = <<v>>], cq)
                IN  Result(IF c.blocked THEN c.src ELSE c.dst, Zero, FALSE,
                           IF c.blocked THEN "none" ELSE "grow", FALSE,
                           c.blocked)

\* The send of the select is ready when the buffer has room; a send on a
\* closed channel panics.
chanQueue_Enqueue(cq, v, th) ==
  IF cq.closed
    THEN Panics(cq)
    ELSE IF Len(cq.buf) < cq.cap
           THEN Returns([cq EXCEPT !.buf = Append(cq.buf, v)], Zero, "none",
                        FALSE)
           ELSE LET c == copyChan(makeChan(cq.cap * growthFactor), cq)
                    n == c.dst
                IN  IF c.blocked
                      THEN Result(c.src, Zero, FALSE, "none", FALSE, TRUE)
                      ELSE IF Len(n.buf) >= n.cap
                             THEN Result(n, Zero, FALSE, "grow", FALSE, TRUE)
                             ELSE Returns([n EXCEPT !.buf = Append(n.buf, v)],
                                          Zero, "grow", FALSE)

\* ------------------------------------------------------- linked list
\* Nodes live in heap, a sequence of elem records [v, next] indexed by the
\* node's address 1, 2, ...; nil is the address 0.
linkedListQueue_new == [len |-> 0, head |-> nil, tail |-> nil, heap |-> << >>]

\* The nodes reached from node a by next links, in at most n steps.
RECURSIVE chain(_, _, _)
chain(heap, a, n) ==
  IF a = nil \/ n = 0 THEN {} ELSE {a} \cup chain(heap, heap[a].next, n - 1)

\* A node the program can no longer reach is garbage: its memory is
\* reclaimed, and the model keeps no contents for it.
collect(heap, roots) ==
  LET live == UNION {chain(heap, a, Len(heap)) : a \in roots}
  IN  [a \in 1..Len(heap) |->
         IF a \in live THEN heap[a] ELSE [v |-> Zero, next |-> nil]]

collected(sq, keep) ==
  [sq EXCEPT !.heap = collect(sq.heap, {sq.head, sq.tail} \cup keep)]

linkedListQueue_Len(sq) == sq.len

\* Dequeue that leaves tail alone when the list becomes empty.
linkedListQueue_Dequeue_keepTail(sq) ==
  IF sq.head = nil
    THEN Panics(sq)
    ELSE LET v == sq.heap[sq.head].v
             h == sq.heap[sq.head].next
         IN  Returns(collected([sq EXCEPT !.len = sq.len - 1, !.head = h],
                               {}),
                     v, "none", FALSE)

linkedListQueue_Dequeue(sq) ==
  IF sq.head = nil
    THEN Panics(sq)
    ELSE LET v == sq.heap[sq.head].v
             h == sq.heap[sq.head].next
         IN  Returns(collected([sq EXCEPT !.len = sq.len - 1,
                                          !.head = h,
                                          !.tail = IF h = nil THEN nil
                                                              ELSE sq.tail],
                               {}),
                     v, "none", FALSE)

\* Enqueue that counts the element only on the path that links it after
\* the tail.
linkedListQueue_Enqueue_lateCount(sq, v) ==
  LET e == Len(sq.heap) + 1
      heap1 == Append(sq.heap, [v |-> v, next |-> nil])
  IN  IF sq.tail = nil
        THEN Returns([sq EXCEPT !.heap = heap1, !.head = e, !.tail = e],
                     Zero, "none", FALSE)
        ELSE Returns([sq EXCEPT !.len = sq.len + 1,
                                !.heap = [heap1 EXCEPT ![sq.tail].next = e],
                                !.tail = e],
                     Zero, "none", FALSE)

linkedListQueue_Enqueue(sq, v) ==
  LET e == Len(sq.heap) + 1
      heap1 == Append(sq.heap, [v |-> v, next |-> nil])
  IN  IF sq.tail = nil
        THEN Returns([sq EXCEPT !.len = sq.len + 1, !.heap = heap1,
                                !.head = e, !.tail = e],
                     Zero, "none", FALSE)
        ELSE Returns([sq EXCEPT !.len = sq.len + 1,
                                !.heap = [heap1 EXCEPT ![sq.tail].next = e],
                                !.tail = e],
                     Zero, "none", FALSE)

\* ------------------------------------------------ pooled linked list
\* pool is the set of nodes the sync.Pool holds; every node of heap was
\* made by the pool's New function.
newPooled ==
  [len |-> 0, head |-> nil, tail |-> nil, heap |-> << >>, pool |-> {}]

linkedListPooledQueue_Len(sq) == sq.len

\* The number of calls of the pool's New function so far.
poolAllocs(sq) == Len(sq.heap)

\* A Put that drops the node.
poolPut_drop(sq, e) == sq

\* p.Put(e).
poolPut(sq, e) == [sq EXCEPT !.pool = sq.pool \cup {e}]

\* The nodes p.Get() may return: any pooled node, or a new one (the
\* address past heap's end) when the pool is empty.
poolGet(sq) == IF sq.pool = {} THEN {Len(sq.heap) + 1} ELSE sq.pool

\* The length is decremented before the emptiness test.
linkedListPooledQueue_Dequeue(sq) ==
  LET a == [sq EXCEPT !.len = sq.len - 1]
  IN  IF a.head = nil
        THEN Panics(a)
        ELSE LET oldHead == a.head
                 v == a.heap[oldHead].v
                 h == a.heap[oldHead].next
                 b == poolPut([a EXCEPT !.head = h], oldHead)
             IN  Returns([b EXCEPT !.tail = IF h = nil THEN nil ELSE b.tail],
                         v, "none", FALSE)

\* Enqueue that sets the value of the node it got and keeps its next link.
linkedListPooledQueue_Enqueue_keepNext(sq, v, e) ==
  LET heap0 == IF e > Len(sq.heap)
                 THEN Append(sq.heap, [v |-> Zero, next |-> nil])
                 ELSE sq.heap
      heap1 == [heap0 EXCEPT ![e].v = v]
      a == [sq EXCEPT !.len = sq.len + 1, !.pool = sq.pool \ {e},
                      !.heap = heap1]
  IN  IF a.tail = nil \/ a.head = nil
        THEN Returns([a EXCEPT !.head = e, !.tail = e], Zero, "none", FALSE)
        ELSE Returns([a EXCEPT !.heap[a.tail].next = e, !.tail = e],
                     Zero, "none", FALSE)

\* e is the node p.Get() returned, one of poolGet(sq).
linkedListPooledQueue_Enqueue(sq, v, e) ==
  LET heap0 == IF e > Len(sq.heap)
                 THEN Append(sq.heap, [v |-> Zero, next |-> nil])
                 ELSE sq.heap
      heap1 == [heap0 EXCEPT ![e] = [v |-> v, next |-> nil]]
      a == [sq EXCEPT !.len = sq.len + 1, !.pool = sq.pool \ {e},
                      !.heap = heap1]
  IN  IF a.tail = nil \/ a.head = nil
        THEN Returns([a EXCEPT !.head = e, !.tail = e], Zero, "none", FALSE)
        ELSE Returns([a EXCEPT !.heap[a.tail].next = e, !.tail = e],
                     Zero, "none", FALSE)

\* --------------------------------------------------------------- map
\* first and last are unsigned counters of CounterBits bits.
Modulus == 2 ^ CounterBits

newMapQueue == [first |-> 0, last |-> 0, mem |-> << >>]

mapQueue_Len(mq) == Cardinality(DOMAIN mq.mem)

\* mem[k] = v.
mapPut(mem, k, v) ==
  [x \in DOMAIN mem \cup {k} |-> IF x = k THEN v ELSE mem[x]]

\* delete(mem, k).
mapDelete(mem, k) == [x \in DOMAIN mem \ {k} |-> mem[x]]

\* mem[k]: the zero value for a key that is absent.
mapGet(mem, k) == IF k \in DOMAIN mem THEN mem[k] ELSE Zero

\* Dequeue that advances first and leaves the entry in the map.
mapQueue_Dequeue_noDelete(mq) ==
  IF Cardinality(DOMAIN mq.mem) = 0
    THEN Panics(mq)
    ELSE Returns([mq EXCEPT !.first = (mq.first + 1) % Modulus],
                 mapGet(mq.mem, mq.first), "none", FALSE)

mapQueue_Dequeue(mq) ==
  IF Cardinality(DOMAIN mq.mem) = 0
    THEN Panics(mq)
    ELSE Returns([mq EXCEPT !.mem = mapDelete(mq.mem, mq.first),
                            !.first = (mq.first + 1) % Modulus],
                 mapGet(mq.mem, mq.first), "none", FALSE)

\* Enqueue that compares last with first before it increments last.
mapQueue_Enqueue_earlyCheck(mq, v) ==
  LET a == [mq EXCEPT !.mem = mapPut(mq.mem, mq.last, v),
                      !.last = (mq.last + 1) % Modulus]
  IN  IF mq.last = mq.first THEN Panics(a) ELSE Returns(a, Zero, "none", FALSE)

mapQueue_Enqueue(mq, v) ==
  LET a == [mq EXCEPT !.mem = mapPut(mq.mem, mq.last, v),
                      !.last = (mq.last + 1) % Modulus]
  IN  IF a.last = a.first THEN Panics(a) ELSE Returns(a, Zero, "none", FALSE)

\* ----------------------------------------------------- the interface
\* ctor of the test's impls table.
ctor(i, t) ==
  CASE i = "slice"  -> sliceQueue_new
    [] i = "ring"   -> ringQueue_new
    [] i = "chan"   -> newChanQueue(t)
    [] i = "list"   -> linkedListQueue_new
    [] i = "pooled" -> newPooled
    [] i = "map"    -> newMapQueue

\* Queue.Len().
LenOf(i, s) ==
  CASE i = "slice"  -> sliceQueue_Len(s)
    [] i = "ring"   -> ringQueue_Len(s)
    [] i = "chan"   -> chanQueue_Len(s)
    [] i = "list"   -> linkedListQueue_Len(s)
    [] i = "pooled" -> linkedListPooledQueue_Len(s)
    [] i = "map"    -> mapQueue_Len(s)

\* Queue.Enqueue and Queue.Dequeue of the three backends that resize.
EnqueueOf(i, s, v, t) ==
  CASE i = "slice" -> sliceQueue_Enqueue(s, v, t)
    [] i = "ring"  -> ringQueue_Enqueue(s, v, t)
    [] i = "chan"  -> chanQueue_Enqueue(s, v, t)

DequeueOf(i, s, t) ==
  CASE i = "slice" -> sliceQueue_Dequeue(s, t)
    [] i = "ring"  -> ringQueue_Dequeue(s, t)
    [] i = "chan"  -> chanQueue_Dequeue(s, t)

\* The capacity of the storage of a backend that resizes.
CapOf(i, s) ==
  CASE i = "slice" -> s.cap
    [] i = "ring"  -> Len(s.buf)
    [] i = "chan"  -> s.cap

\* ------------------------------------- a make that cannot allocate
\* make panics when it cannot give the storage asked for. The operators
\* below follow a method up to the make of its resize and give the queue as
\* the panic leaves it, marked "failed"; a call that reaches no make ends as
\* the method itself does.
Fails(q) == Result(q, Zero, TRUE, "failed", FALSE, FALSE)

sliceQueue_checkShrink_makePanics(sq, th) ==
  LET r == shouldShrink(Len(sq.s), sq.cap, th)
  IN  IF r.ok THEN [q |-> sq, resize |-> "failed"]
              ELSE [q |-> sq, resize |-> "none"]

sliceQueue_Dequeue_makePanics(sq, th) ==
  IF Len(sq.s) = 0
    THEN Panics(sq)
    ELSE LET v == sq.s[1]
             cut == [sq EXCEPT !.s = Tail(sq.s), !.cap = sq.cap - 1]
             r == sliceQueue_checkShrink_makePanics(cut, th)
         IN  IF r.resize = "failed" THEN Fails(r.q)
                                    ELSE Returns(r.q, v, r.resize, FALSE)

ringQueue_checkShrink_makePanics(sq, th) ==
  LET r == shouldShrink(sq.l, Len(sq.buf), th)
  IN  IF ~r.ok
        THEN [q |-> sq, wrap |-> FALSE, resize |-> "none"]
        ELSE [q |-> sq, wrap |-> FALSE, resize |-> "failed"]

ringQueue_Dequeue_makePanics(sq, th) ==
  IF sq.l = 0
    THEN Panics(sq)
    ELSE LET v == sq.buf[sq.first + 1]
             cut == [sq EXCEPT !.first = (sq.first + 1) % Len(sq.buf),
                               !.l = sq.l - 1]
             r == ringQueue_checkShrink_makePanics(cut, th)
         IN  IF r.resize = "failed" THEN Fails(r.q)
                                    ELSE Returns(r.q, v, r.resize, r.wrap)

ringQueue_grow_makePanics(sq, th) == [q |-> sq, wrap |-> FALSE]

ringQueue_Enqueue_makePanics(sq, v, th) ==
  IF sq.l + 1 > Len(sq.buf)
    THEN Fails(ringQueue_grow_makePanics(sq, th).q)
    ELSE ringQueue_Enqueue(sq, v, th)

chanQueue_checkShrink_makePanics(cq, th) ==
  LET r == shouldShrink(Len(cq.buf), cq.cap, th)
  IN  IF ~r.ok
        THEN [q |-> cq, resize |-> "none", blocked |-> FALSE]
        ELSE [q |-> cq, resize |-> "failed", blocked |-> FALSE]

chanQueue_Dequeue_makePanics(cq, th) ==
  IF Len(cq.buf) > 0
    THEN LET v == Head(cq.buf)
             r == chanQueue_checkShrink_makePanics(
                    [cq EXCEPT !.buf = Tail(cq.buf)], th)
         IN  IF r.resize = "failed"
               THEN Fails(r.q)
               ELSE Result(r.q, v, FALSE, r.resize, FALSE, r.blocked)
    ELSE IF cq.closed
           THEN Returns(cq, Zero, "none", FALSE)
           ELSE Panics(cq)

\* Enqueue that closes the full channel before it makes the new one.
chanQueue_Enqueue_makePanics_closeFirst(cq, v, th) ==
  IF cq.closed
    THEN Panics(cq)
    ELSE IF Len(cq.buf) < cq.cap
           THEN Returns([cq EXCEPT !.buf = Append(cq.buf, v)], Zero, "none",
                        FALSE)
           ELSE Fails([cq EXCEPT !.closed = TRUE])

chanQueue_Enqueue_makePanics(cq, v, th) ==
  IF cq.closed
    THEN Panics(cq)
    ELSE IF Len(cq.buf) < cq.cap
           THEN Returns([cq EXCEPT !.buf = Append(cq.buf, v)], Zero, "none",
                        FALSE)
           ELSE Fails(cq)

\* -------------------------------------------------------------- state
VARIABLES
  impl,       \* the backend under test
  th,         \* the package variables [minShrink, baseLen]
  q,          \* the queue
  res,        \* the last call: its kind, argument, result, Len() before it
  prev,       \* what the call before the last did to the storage
  nEnq,       \* Enqueue calls so far; the next value enqueued is nEnq + 1
  out,        \* the values Dequeue has returned, in order
  nFail,      \* Dequeue calls made with Len() <= 0
  exhausted,  \* an Enqueue has panicked (the map backend's sequence
              \* space is used up), or a make has: the run ends there
  gc,         \* the pool has dropped nodes
  highWater,  \* the largest Len() seen
  th2,        \* a second setting of the package variables,
  q2,         \* a second queue of the same backend run under it,
  res2,       \* and its last call
  call        \* a call of shouldShrink on its own

vars ==
  <<impl, th, q, res, prev, nEnq, out, nFail, exhausted, gc, highWater, th2, q2,
    res2, call>>

NoCall ==
  [op |-> "new", arg |-> Zero, v |-> Zero, panic |-> FALSE, resize |-> "none",
   wrap |-> FALSE, blocked |-> FALSE, preLen |-> 0]

Called(op, arg, r, preLen) ==
  [op |-> op, arg |-> arg, v |-> r.v, panic |-> r.panic, resize |-> r.resize,
   wrap |-> r.wrap, blocked |-> r.blocked, preLen |-> preLen]

Idle == "idle"

InitGhost ==
  /\ res = NoCall
  /\ prev = "none"
  /\ nEnq = 0
  /\ out = << >>
  /\ nFail = 0
  /\ exhausted = FALSE
  /\ gc = FALSE
  /\ highWater = 0

Init ==
  /\ impl \in Impls
  /\ th \in SettingsOf(impl)
  /\ q = ctor(impl, th)
  /\ InitGhost
  /\ th2 = Idle /\ q2 = Idle /\ res2 = Idle /\ call = Idle

\* A caller may call Enqueue.
CanEnqueue == nEnq < MaxEnq /\ ~res.blocked /\ ~exhausted

\* A caller may call Dequeue: as the interface asks (Len() > 0), or not.
CanDequeue ==
  ~res.blocked /\ ~exhausted /\ (LenOf(impl, q) > 0 \/ nFail < MaxFail)

\* The queue and the bookkeeping after an Enqueue with result r.
Enqueued(r) ==
  /\ q' = r.q
  /\ res' = Called("enq", nEnq + 1, r, LenOf(impl, q))
  /\ prev' = res.resize
  /\ nEnq' = nEnq + 1
  /\ exhausted' = (exhausted \/ r.panic)
  /\ highWater' = max(highWater, LenOf(impl, r.q))
  /\ UNCHANGED <<impl, th, out, nFail, gc>>

\* The queue and the bookkeeping after a Dequeue with result r.
Dequeued(r) ==
  /\ q' = r.q
  /\ res' = Called("deq", Zero, r, LenOf(impl, q))
  /\ prev' = res.resize
  /\ out' = IF r.panic THEN out ELSE Append(out, r.v)
  /\ nFail' = IF LenOf(impl, q) <= 0 THEN nFail + 1 ELSE nFail
  /\ UNCHANGED <<impl, th, nEnq, exhausted, gc, highWater>>

Single == UNCHANGED <<th2, q2, res2, call>>

SliceEnqueue ==
  /\ impl = "slice" /\ CanEnqueue
  /\ Enqueued(sliceQueue_Enqueue(q, nEnq + 1, th)) /\ Single

SliceDequeue ==
  /\ impl = "slice" /\ CanDequeue
  /\ Dequeued(sliceQueue_Dequeue(q, th)) /\ Single

RingEnqueue ==
  /\ impl = "ring" /\ CanEnqueue
  /\ Enqueued(ringQueue_Enqueue(q, nEnq + 1, th)) /\ Single

RingDequeue ==
  /\ impl = "ring" /\ CanDequeue
  /\ Dequeued(ringQueue_Dequeue(q, th)) /\ Single

ChanEnqueue ==
  /\ impl = "chan" /\ CanEnqueue
  /\ Enqueued(chanQueue_Enqueue(q, nEnq + 1, th)) /\ Single

ChanDequeue ==
  /\ impl = "chan" /\ CanDequeue
  /\ Dequeued(chanQueue_Dequeue(q, th)) /\ Single

LinkedListEnqueue ==
  /\ impl = "list" /\ CanEnqueue
  /\ Enqueued(linkedListQueue_Enqueue(q, nEnq + 1)) /\ Single

LinkedListDequeue ==
  /\ impl = "list" /\ CanDequeue
  /\ Dequeued(linkedListQueue_Dequeue(q)) /\ Single

PooledEnqueue ==
  /\ impl = "pooled" /\ CanEnqueue
  /\ nEnq < MaxPooledEnq
  /\ (q.pool # {} \/ poolAllocs(q) < MaxNodes)
  /\ \E e \in poolGet(q) :
       Enqueued(linkedListPooledQueue_Enqueue(q, nEnq + 1, e))
  /\ Single

PooledDequeue ==
  /\ impl = "pooled" /\ CanDequeue
  /\ Dequeued(linkedListPooledQueue_Dequeue(q)) /\ Single

\* sync.Pool may drop what it holds at any time.
PoolGC ==
  /\ impl = "pooled" /\ q.pool # {}
  /\ q' = collected([q EXCEPT !.pool = {}], {})
  /\ gc' = TRUE
  /\ UNCHANGED <<impl, th, res, prev, nEnq, out, nFail, exhausted, highWater>>
  /\ Single

MapEnqueue ==
  /\ impl = "map" /\ CanEnqueue
  /\ Enqueued(mapQueue_Enqueue(q, nEnq + 1)) /\ Single

MapDequeue ==
  /\ impl = "map" /\ CanDequeue
  /\ Dequeued(mapQueue_Dequeue(q)) /\ Single

Next ==
  \/ SliceEnqueue \/ SliceDequeue
  \/ RingEnqueue \/ RingDequeue
  \/ ChanEnqueue \/ ChanDequeue
  \/ LinkedListEnqueue \/ LinkedListDequeue
  \/ PooledEnqueue \/ PooledDequeue \/ PoolGC
  \/ MapEnqueue \/ MapDequeue

Spec == Init /\ [][Next]_vars

\* ------------------------------------------- two settings, side by side
\* Two queues of one backend, made under two settings of the package
\* variables, are given the same calls.
InitPair ==
  /\ impl \in ResizeImpls
  /\ \E i, j \in 1..Len(SettingList) :
       i < j /\ th = SettingList[i] /\ th2 = SettingList[j]
  /\ q = ctor(impl, th)
  /\ q2 = ctor(impl, th2)
  /\ InitGhost
  /\ res2 = NoCall
  /\ call = Idle

PairEnqueue ==
  /\ CanEnqueue /\ ~res2.blocked
  /\ Enqueued(EnqueueOf(impl, q, nEnq + 1, th))
  /\ LET r2 == EnqueueOf(impl, q2, nEnq + 1, th2)
     IN  /\ q2' = r2.q
         /\ res2' = Called("enq", nEnq + 1, r2, LenOf(impl, q2))
  /\ UNCHANGED <<th2, call>>

PairDequeue ==
  /\ CanDequeue /\ ~res2.blocked
  /\ Dequeued(DequeueOf(impl, q, th))
  /\ LET r2 == DequeueOf(impl, q2, th2)
     IN  /\ q2' = r2.q
         /\ res2' = Called("deq", Zero, r2, LenOf(impl, q2))
  /\ UNCHANGED <<th2, call>>

NextPair == PairEnqueue \/ PairDequeue

SpecPair == InitPair /\ [][NextPair]_vars

\* ------------------------------------------- shouldShrink on its own
\* One call of shouldShrink(l, c) under the setting t.
InitPolicy ==
  /\ call \in [l : 0..MaxArg, c : 0..MaxArg, t : Settings,
               done : {FALSE}, newCap : {0}, ok : {FALSE}]
  /\ impl = Idle /\ th = Idle /\ q = Idle /\ res = Idle /\ prev = Idle
  /\ nEnq = 0 /\ out = << >> /\ nFail = 0
  /\ exhausted = FALSE /\ gc = FALSE /\ highWater = 0
  /\ th2 = Idle /\ q2 = Idle /\ res2 = Idle

CallShouldShrink ==
  /\ ~call.done
  /\ LET r == shouldShrink(call.l, call.c, call.t)
     IN  call' = [call EXCEPT !.done = TRUE, !.newCap = r.newCap,
                              !.ok = r.ok]
  /\ UNCHANGED <<impl, th, q, res, prev, nEnq, out, nFail, exhausted, gc,
                 highWater, th2, q2, res2>>

NextPolicy == CallShouldShrink

SpecPolicy == InitPolicy /\ [][NextPolicy]_vars

\* ------------------------------------- resizes that cannot allocate
\* The three backends that resize, with calls whose make panics.
InitAlloc ==
  /\ impl \in ResizeImpls
  /\ th \in Settings
  /\ q = ctor(impl, th)
  /\ InitGhost
  /\ th2 = Idle /\ q2 = Idle /\ res2 = Idle /\ call = Idle

\* The queue and the bookkeeping after a call that ended in the panic of a
\* make, with result r.
MakePanicked(op, arg, r) ==
  /\ r.resize = "failed"
  /\ q' = r.q
  /\ res' = Called(op, arg, r, LenOf(impl, q))
  /\ prev' = res.resize
  /\ exhausted' = TRUE
  /\ UNCHANGED <<impl, th, nEnq, out, nFail, gc, highWater>>

SliceDequeueMakePanics ==
  /\ impl = "slice" /\ CanDequeue
  /\ MakePanicked("deq", Zero, sliceQueue_Dequeue_makePanics(q, th)) /\ Single

RingEnqueueMakePanics ==
  /\ impl = "ring" /\ CanEnqueue
  /\ MakePanicked("enq", nEnq + 1,
                  ringQueue_Enqueue_makePanics(q, nEnq + 1, th))
  /\ Single

RingDequeueMakePanics ==
  /\ impl = "ring" /\ CanDequeue
  /\ MakePanicked("deq", Zero, ringQueue_Dequeue_makePanics(q, th)) /\ Single

ChanEnqueueMakePanics ==
  /\ impl = "chan" /\ CanEnqueue
  /\ MakePanicked("enq", nEnq + 1,
                  chanQueue_Enqueue_makePanics(q, nEnq + 1, th))
  /\ Single

ChanDequeueMakePanics ==
  /\ impl = "chan" /\ CanDequeue
  /\ MakePanicked("deq", Zero, chanQueue_Dequeue_makePanics(q, th)) /\ Single

NextAlloc ==
  \/ SliceEnqueue \/ SliceDequeue \/ SliceDequeueMakePanics
  \/ RingEnqueue \/ RingDequeue
  \/ RingEnqueueMakePanics \/ RingDequeueMakePanics
  \/ ChanEnqueue \/ ChanDequeue
  \/ ChanEnqueueMakePanics \/ ChanDequeueMakePanics

SpecAlloc == InitAlloc /\ [][NextAlloc]_vars

\* ------------------------------------------------------------ claims
\* Every Dequeue so far was called as the interface asks, with Len() > 0.
Respected == nFail = 0

\* The first n values passed to Enqueue, in order.
Enqueues(n) == [k \in 1..n |-> k]

\* C1. FIFO order, all six backends: as long as Dequeue is only called with
\* Len() > 0, the values Dequeue has returned are exactly the first values
\* passed to Enqueue, in insertion order (the k-th Dequeue returns the k-th
\* enqueued value).
C1_FifoOrder ==
  Respected => (Len(out) <= nEnq /\ out = Enqueues(Len(out)))

\* Five values have come out in order, after a Dequeue that followed
\* Enqueues made between Dequeues, and the queue still holds elements.
C1_Witness ==
  /\ Respected /\ res.op = "deq" /\ ~res.panic
  /\ Len(out) >= 5 /\ res.v = 5 /\ nEnq > 6

\* C2. Length invariant, all six backends: as long as Dequeue is only called
\* with Len() > 0, every Dequeue returns, and Len() is the number of Enqueue
\* calls minus the number of Dequeue calls, never negative, also right after
\* a growth or a shrink.
C2_LenInvariant ==
  Respected =>
    /\ res.op = "deq" => ~res.panic
    /\ LenOf(impl, q) = nEnq - Len(out)
    /\ LenOf(impl, q) >= 0

\* A Dequeue has just shrunk the storage of a queue that holds elements.
C2_Witness ==
  /\ Respected /\ res.op = "deq" /\ res.resize = "shrink"
  /\ LenOf(impl, q) = nEnq - Len(out) /\ LenOf(impl, q) > 0

\* C3. Dequeue on an empty queue, all six backends: a Dequeue called while
\* Len() = 0 panics: it returns no value and does not block.
C3_EmptyDequeuePanics ==
  (res.op = "deq" /\ res.preLen = 0) => (res.panic /\ ~res.blocked)

\* C4. Resize transparency, slice, ring and chan backends: two queues run
\* under two different settings of (minShrink, baseLen) and given the same
\* calls return the same values from every Dequeue, panic on the same calls
\* and report the same Len() after every call.
C4_ResizeTransparent ==
  /\ res.op = res2.op
  /\ res.v = res2.v
  /\ res.panic = res2.panic
  /\ res.blocked = res2.blocked
  /\ LenOf(impl, q) = LenOf(impl, q2)

\* A Dequeue returned a value from both queues, shrank the storage of only
\* one of them, and left them with different capacities.
C4_Witness ==
  /\ res.op = "deq" /\ ~res.panic /\ res.v > 0
  /\ res.resize # res2.resize
  /\ CapOf(impl, q) # CapOf(impl, q2)

\* C5 as amended. shouldShrink(l, c) returns newCap = l * growthFactor, and
\* ok only when l < c/4 (the length, not the new capacity, against a quarter
\* of the capacity), l > minShrink and l > baseLen; ok is false whenever
\* l >= c/4.
C5_ShrinkGuard ==
  call.done =>
    /\ call.newCap = call.l * growthFactor
    /\ call.ok => /\ call.l < call.c \div 4
                  /\ call.l > call.t.minShrink
                  /\ call.l > call.t.baseLen
    /\ call.l >= call.c \div 4 => ~call.ok

\* shouldShrink allowed a shrink whose new capacity is not below c/4.
C5_Witness ==
  call.done /\ call.ok /\ call.l * growthFactor >= call.c \div 4

\* C5 as stated. ok only when the new capacity l * growthFactor is below
\* c/4, l > minShrink and l > baseLen, and never when
\* l * growthFactor >= c/4.
C5_ShrinkGuardOnNewCap ==
  call.done =>
    /\ call.newCap = call.l * growthFactor
    /\ call.ok => /\ call.l * growthFactor < call.c \div 4
                  /\ call.l > call.t.minShrink
                  /\ call.l > call.t.baseLen
    /\ call.l * growthFactor >= call.c \div 4 => ~call.ok

\* The live elements of a ring, oldest first.
Live(sq) ==
  [i \in 1..sq.l |-> sq.buf[((sq.first + i - 1) % Len(sq.buf)) + 1]]

\* C6. Ring linearization: whenever an Enqueue grows the buffer or a Dequeue
\* shrinks it, wrapped live window or not, first is 0 afterwards and the new
\* buffer holds the elements that were live, oldest first, from position 0
\* on (followed by the new element after an Enqueue, without the returned
\* one after a Dequeue): none dropped, duplicated or reordered.
C6_Linearized ==
  [][(impl = "ring" /\ res'.resize # "none") =>
       /\ q'.first = 0
       /\ res'.op = "enq" =>
            /\ q'.l = q.l + 1
            /\ SubSeq(q'.buf, 1, q'.l) = Append(Live(q), res'.arg)
       /\ res'.op = "deq" =>
            /\ q'.l = q.l - 1
            /\ res'.v = Head(Live(q))
            /\ SubSeq(q'.buf, 1, q'.l) = Tail(Live(q))]_vars

\* A Dequeue has shrunk a ring whose live window wrapped.
C6_Witness ==
  impl = "ring" /\ res.op = "deq" /\ res.resize = "shrink" /\ res.wrap

\* C7. Hysteresis, ring and chan backends: the Dequeue that directly follows
\* an Enqueue that grew the storage does not shrink it, and the Enqueue that
\* directly follows a Dequeue that shrank the storage does not grow it.
C7_Hysteresis ==
  impl \in {"ring", "chan"} =>
    /\ ~(prev = "grow" /\ res.op = "deq" /\ res.resize = "shrink")
    /\ ~(prev = "shrink" /\ res.op = "enq" /\ res.resize = "grow")

\* An Enqueue has directly followed a Dequeue that shrank the storage.
C7_Witness ==
  /\ impl \in {"ring", "chan"}
  /\ prev = "shrink" /\ res.op = "enq" /\ ~res.panic /\ res.resize = "none"

\* C8. The chan backend never blocks (baseLen >= 1): no blocking send of a
\* resize finds the new channel full, every Enqueue returns, and every
\* Dequeue called with Len() > 0 returns.
C8_NeverBlocks ==
  impl = "chan" =>
    /\ ~res.blocked
    /\ res.op = "enq" => ~res.panic
    /\ (res.op = "deq" /\ res.preLen > 0) => ~res.panic

\* An Enqueue on a full channel has returned with the channel doubled, after
\* an earlier shrink.
C8_Witness ==
  /\ impl = "chan" /\ res.op = "enq" /\ res.resize = "grow" /\ ~res.blocked
  /\ q.cap = growthFactor * res.preLen
  /\ q.cap % 4 # 0

\* The values a map queue holds, from key first on.
Held(mq) ==
  [i \in 1..mapQueue_Len(mq) |->
     mapGet(mq.mem, (mq.first + i - 1) % Modulus)]

\* C9. Map backend, counters of CounterBits bits: an Enqueue panics exactly
\* when last equals first after the increment, which is exactly when it was
\* called with 2^CounterBits - 1 entries held; and when it panics, the map
\* holds the 2^CounterBits values enqueued and not yet dequeued, each under
\* its own key, none overwritten or lost.
C9_Exhaustion ==
  (impl = "map" /\ res.op = "enq") =>
    /\ res.panic <=> q.last = q.first
    /\ res.panic <=> res.preLen = Modulus - 1
    /\ res.panic =>
         /\ mapQueue_Len(q) = Modulus
         /\ Held(q) = [i \in 1..Modulus |-> Len(out) + i]

\* An Enqueue has panicked with the counters at a key other than 0.
C9_Witness ==
  impl = "map" /\ res.op = "enq" /\ res.panic /\ q.first # 0

C11_GrowthPolicy ==
  [][(impl = "ring" /\ res'.op = "enq") =>
       LET c == Len(q.buf)
           slot == ((q.first + q.l) % c) + 1
       IN  /\ (Len(q'.buf) # c) <=> (q.l + 1 > c)
           /\ (res'.resize = "grow") <=> (q.l + 1 > c)
           /\ q.l + 1 > c =>
                Len(q'.buf) = max(growthFactor * c, th.baseLen)
           /\ q.l + 1 <= c =>
                /\ q'.first = q.first
                /\ q'.buf = [q.buf EXCEPT ![slot] = res'.arg]
           /\ q'.l = q.l + 1]_vars

\* An Enqueue on a full ring of capacity at least baseLen has doubled it.
C11_Witness ==
  /\ impl = "ring" /\ res.op = "enq" /\ res.resize = "grow"
  /\ res.preLen >= th.baseLen
  /\ Len(q.buf) = growthFactor * res.preLen

\* C12. Channel overflow: an Enqueue(v) on a full channel of capacity c >= 1
\* leaves an open channel of capacity 2c that buffers the old values in
\* their order followed by v; an Enqueue on a channel that is not full
\* keeps the capacity and appends v.
C12_OverflowResize ==
  [][(impl = "chan" /\ res'.op = "enq") =>
       /\ ~res'.panic /\ ~res'.blocked
       /\ q'.buf = Append(q.buf, res'.arg)
       /\ ~q'.closed
       /\ q'.cap = IF Len(q.buf) = q.cap THEN growthFactor * q.cap
                                          ELSE q.cap
       /\ (res'.resize = "grow") <=> (Len(q.buf) = q.cap)]_vars

\* An Enqueue has doubled a full channel that held several values.
C12_Witness ==
  /\ impl = "chan" /\ res.op = "enq" /\ res.resize = "grow"
  /\ res.preLen >= 3
  /\ q.cap = growthFactor * res.preLen /\ Len(q.buf) = res.preLen + 1

\* The values enqueued and not yet returned, oldest first.
Pending == [i \in 1..(nEnq - Len(out)) |-> Len(out) + i]

\* C13. Ring structural invariant: 0 <= l <= len(buf); first is below
\* len(buf) when the buffer is not empty; the i-th oldest element is at
\* position (first + i) mod len(buf); Enqueue never panics and Dequeue
\* panics only on an empty ring (no index out of range, no zero modulus).
C13_RingStructure ==
  impl = "ring" =>
    /\ 0 <= q.l /\ q.l <= Len(q.buf)
    /\ 0 <= q.first
    /\ Len(q.buf) > 0 => q.first < Len(q.buf)
    /\ Len(q.buf) = 0 => q.first = 0
    /\ res.op = "enq" => ~res.panic
    /\ (res.op = "deq" /\ res.panic) => res.preLen = 0
    /\ Live(q) = Pending

\* A ring whose live window wraps past the buffer's end.
C13_Witness ==
  /\ impl = "ring" /\ q.first + q.l > Len(q.buf) /\ q.l >= 2
  /\ res.op = "deq" /\ Len(out) >= 3

\* The nodes met from node a along next links, in order, n at most.
RECURSIVE walk(_, _, _)
walk(heap, a, n) ==
  IF a = nil \/ n = 0
    THEN << >>
    ELSE <<a>> \o walk(heap, heap[a].next, n - 1)

\* The nodes of a linked queue from head on (one more than there are nodes
\* when the links form a cycle).
Nodes(sq) == walk(sq.heap, sq.head, Len(sq.heap) + 1)

\* C14. Linked-list structure, list and pooled backends, as long as Dequeue
\* is only called with Len() > 0: head is nil exactly when tail is nil and
\* exactly when len is 0; otherwise the next links from head visit exactly
\* len distinct nodes, the last of them is tail, and tail's next is nil.
C14_ListStructure ==
  (impl \in {"list", "pooled"} /\ Respected) =>
    LET w == Nodes(q)
    IN  /\ (q.head = nil) <=> (q.tail = nil)
        /\ (q.head = nil) <=> (q.len = 0)
        /\ Len(w) = q.len
        /\ \A i, j \in 1..Len(w) : w[i] = w[j] => i = j
        /\ q.len > 0 => (w[q.len] = q.tail /\ q.heap[q.tail].next = nil)

\* A list that was emptied and filled again holds three linked nodes.
C14_Witness ==
  /\ impl \in {"list", "pooled"} /\ Respected
  /\ q.len = 3 /\ Len(out) >= 4 /\ res.op = "enq"

\* C15. Pooled node exclusivity: no node the pool holds is in the chain
\* from head (nor is tail); the node Enqueue links as the new tail carries
\* the enqueued value and a nil next; and the values along the chain are the
\* pending values in order, so no stale link of a recycled node is followed.
C15_PoolExclusive ==
  impl = "pooled" =>
    LET w == Nodes(q)
    IN  /\ \A i \in 1..Len(w) : w[i] \notin q.pool
        /\ q.tail \notin q.pool
        /\ res.op = "enq" =>
             q.heap[q.tail] = [v |-> res.arg, next |-> nil]
        /\ [i \in 1..Len(w) |-> q.heap[w[i]].v] = Pending

\* The pool holds a node whose stale next link points at a node of the
\* chain, and the chain holds a node that was recycled.
C15_Witness ==
  /\ impl = "pooled" /\ q.head # nil /\ nEnq > poolAllocs(q)
  /\ \E e \in q.pool : q.heap[e].next \in chain(q.heap, q.head, Len(q.heap))

\* C16. Ring and channel backends, under every setting of the thresholds:
\* between operations, a queue longer than minShrink and longer than baseLen
\* is at least a quarter (rounded down) of its capacity long, and every
\* shrink leaves a capacity of exactly twice the length, which is less than
\* the capacity before.
C16_ShrinkProportional ==
  /\ [](impl \in {"ring", "chan"} =>
          ((LenOf(impl, q) > th.minShrink /\ LenOf(impl, q) > th.baseLen)
             => LenOf(impl, q) >= CapOf(impl, q) \div 4))
  /\ [][(impl \in {"ring", "chan"} /\ res'.op = "deq") =>
          /\ (res'.resize = "shrink") <=> (CapOf(impl, q') # CapOf(impl, q))
          /\ res'.resize = "shrink" =>
               /\ CapOf(impl, q') = 2 * LenOf(impl, q')
               /\ CapOf(impl, q') < CapOf(impl, q)]_vars

\* A Dequeue has shrunk the storage of a queue that is still longer than
\* both thresholds.
C16_Witness ==
  /\ impl \in {"ring", "chan"} /\ res.op = "deq" /\ res.resize = "shrink"
  /\ LenOf(impl, q) > th.minShrink /\ LenOf(impl, q) > th.baseLen
  /\ CapOf(impl, q) = 2 * LenOf(impl, q)
  /\ th.minShrink # th.baseLen

\* C17. A Dequeue that is called with Len() = 0 and panics leaves the queue
\* as it was: Len() is still 0 when the panic has been recovered.
C17_FailedDequeueKeepsLen ==
  (res.op = "deq" /\ res.panic /\ res.preLen = 0) => LenOf(impl, q) = 0

\* C19. Map backend, first and last counters of CounterBits bits, until an
\* Enqueue panics: the keys of the map are first, first + 1, .. up to
\* last - 1, modulo 2^CounterBits; Len() is (last - first) modulo
\* 2^CounterBits; the values under these keys, from first on, are the
\* pending values in order, whichever counter has wrapped; and a Dequeue
\* deletes the key it returns the value of.
C19_KeyWindow ==
  /\ []((impl = "map" /\ ~exhausted) =>
          /\ DOMAIN q.mem
               = {(q.first + i) % Modulus : i \in 0..(mapQueue_Len(q) - 1)}
          /\ mapQueue_Len(q) = (q.last - q.first + Modulus) % Modulus
          /\ mapQueue_Len(q) < Modulus
          /\ Held(q) = Pending)
  /\ [][(impl = "map" /\ res'.op = "deq" /\ ~res'.panic) =>
          /\ q.first \in DOMAIN q.mem
          /\ q.first \notin DOMAIN q'.mem
          /\ res'.v = q.mem[q.first]
          /\ q'.first = (q.first + 1) % Modulus
          /\ q'.last = q.last]_vars

\* Both counters have wrapped, last once more than first, and a Dequeue has
\* just returned from a queue that still holds two values or more.
C19_Witness ==
  /\ impl = "map" /\ ~exhausted /\ res.op = "deq" /\ ~res.panic
  /\ Len(out) > Modulus /\ q.last < q.first /\ mapQueue_Len(q) >= 2

\* The elements a queue of a resizing backend holds, oldest first.
Contents(i, s) ==
  CASE i = "slice" -> s.s
    [] i = "ring"  -> Live(s)
    [] i = "chan"  -> s.buf

\* C18. When the make of a resize panics, the queue is as it was when the
\* resize began. In Enqueue (ring grow, channel overflow) nothing of the
\* queue has changed: fields, storage, elements, order and Len() are those
\* before the call, and the channel is open. In Dequeue (checkShrink of
\* slice, ring and channel) the queue holds the elements left by the
\* removal that precedes the resize, in order, in the storage it had: the
\* buffer is not replaced and the channel is not closed.
C18_AllocAtomic ==
  [][(res'.resize = "failed") =>
       /\ res'.op = "enq" =>
            /\ q' = q
            /\ Contents(impl, q') = Pending
            /\ LenOf(impl, q') = res'.preLen
       /\ res'.op = "deq" =>
            /\ Contents(impl, q') = Tail(Contents(impl, q))
            /\ Contents(impl, q') = Tail(Pending)
            /\ LenOf(impl, q') = res'.preLen - 1
            /\ impl = "ring" => q'.buf = q.buf
            /\ impl = "slice" => q'.cap = q.cap - 1 /\ ~q'.isNil
            /\ impl = "chan" => q'.cap = q.cap
       /\ impl = "chan" => ~q'.closed]_vars

\* The make of a shrink has panicked in a Dequeue that left three elements
\* or more in the channel.
C18_Witness ==
  /\ impl = "chan" /\ res.op = "deq" /\ res.resize = "failed"
  /\ ~q.closed /\ Len(q.buf) >= 3 /\ Len(out) >= 1

====
